---- MODULE Spec2Model ----
(***************************************************************************)
(* Taint tracking of ddtrace.appsec.iast._taint_tracking: the identity    *)
(* keyed registry of taint ranges, the taint boundary (taint_pyobject)    *)
(* and the propagation of ranges through concatenation                    *)
(* (add_taint_pyobject).                                                   *)
(*                                                                         *)
(* Values live in a heap `objs`; the identity of a value (Python's id())   *)
(* is its index in the heap.  A range is a record                          *)
(* [start, length, source], as TaintRange(start, length, source).          *)
(* The native primitives (ops.is_tainted, get_ranges, set_ranges,          *)
(* new_pyobject_id), get_taint_dict and oce.request_has_quota are          *)
(* modelled as accessors of the one registry the design describes.         *)
(***************************************************************************)
EXTENDS Integers, Sequences, FiniteSets, TLC

\* ---------------------------------------------------------------- bounds
MaxObjs == 3
MaxLen == 4

VARIABLES objs, taint_dict, request_has_quota, last, pre_dict

\* the threads that run add_taint_pyobject on the shared registry
VARIABLES threads

\* sampling: a rule's tag matchers, a span, context._meta before and after a call
VARIABLES rule, span, _meta, pre_meta

\* tornado: the tuples _state.contexts has been bound to, _state.contexts
\* itself, the TracerStackContext objects, the with-blocks that are open,
\* the IO loop and the thread-local context of the default provider
VARIABLES contexts, _state_contexts, stack_contexts, blocks, io_loop, local_context

taint_vars == <<objs, taint_dict, request_has_quota, pre_dict>>
thread_vars == <<threads>>
sampling_vars == <<rule, span, _meta, pre_meta>>
tornado_vars == <<contexts, _state_contexts, stack_contexts, blocks, io_loop, local_context>>

vars == <<objs, taint_dict, request_has_quota, last, pre_dict,
          thread_vars, sampling_vars, tornado_vars>>

\* ---------------------------------------------------------------- values
None == "None"
Sources == {"S1", "S2"}
TextKinds == {"str", "bytes", "bytearray"}

\* The values the application starts with: empty and non-empty text, text of
\* another type, and a value that is no text at all.
InputObjs ==
    { [kind |-> "str", val |-> <<>>],
      [kind |-> "str", val |-> <<"a">>],
      [kind |-> "bytes", val |-> <<"b">>],
      [kind |-> "float", val |-> <<>>] }

InitHeaps == {<<x>> : x \in InputObjs} \cup {<<x, y>> : x, y \in InputObjs}

Ids == DOMAIN objs
len(o) == Len(objs[o].val)
EmptyDict == [i \in {} |-> <<>>]

\* the parts of the program a specification does not exercise stay as they are
NoTaint ==
    /\ objs = <<>>
    /\ taint_dict = EmptyDict
    /\ request_has_quota = TRUE
    /\ pre_dict = EmptyDict
NoThreads == threads = <<>>
NoSampling == rule = <<>> /\ span = <<>> /\ _meta = EmptyDict /\ pre_meta = EmptyDict
NoTornado ==
    /\ contexts = <<>>
    /\ _state_contexts = 0
    /\ stack_contexts = <<>>
    /\ blocks = <<>>
    /\ io_loop = FALSE
    /\ local_context = None

\* ------------------------------------------------------- native primitives
\* TaintRange(start, length, source)
TaintRange(start, length, source) ==
    [start |-> start, length |-> length, source |-> source]

\* get_ranges(pyobject): the ranges of an identity, empty when it has none
get_ranges(d, o) == IF o \in DOMAIN d THEN d[o] ELSE <<>>

\* ops.is_tainted(pyobject): true iff the lookup is non-empty
is_tainted_by_membership(d, o) == o \in DOMAIN d
is_pyobject_tainted(d, o) == get_ranges(d, o) # <<>>

\* set_ranges(pyobject, ranges)
set_ranges(d, o, ranges) == (o :> ranges) @@ d

get_tainted_ranges(o) == get_ranges(taint_dict, o)

\* ------------------------------------------------------------ the calls
Call(op, a, b, src, ret, err) ==
    [op |-> op, a |-> a, b |-> b, src |-> src, ret |-> ret, err |-> err]

\* taint_pyobject: the range registered for a whole value
WholeRangeOff(o, source) == TaintRange(0, len(o) + 1, source)
WholeRangeFromOne(o, source) == TaintRange(1, len(o) - 1, source)
WholeRange(o, source) == TaintRange(0, len(o), source)

taint_pyobject_no_quota_check(o, source) ==
    /\ pre_dict' = taint_dict
    /\ last' = Call("taint", o, 0, source, o, "none")
    /\ IF objs[o].val = <<>> \/ objs[o].kind \notin TextKinds
         THEN taint_dict' = taint_dict
       ELSE IF source = None
         THEN taint_dict' = taint_dict
       ELSE taint_dict' = set_ranges(taint_dict, o, <<WholeRange(o, source)>>)
    /\ UNCHANGED <<objs, request_has_quota>>

taint_pyobject_no_source_check(o, source) ==
    /\ pre_dict' = taint_dict
    /\ last' = Call("taint", o, 0, source, o, "none")
    /\ IF ~request_has_quota
         THEN taint_dict' = taint_dict
       ELSE IF objs[o].val = <<>> \/ objs[o].kind \notin TextKinds
         THEN taint_dict' = taint_dict
       ELSE taint_dict' = set_ranges(taint_dict, o, <<WholeRange(o, source)>>)
    /\ UNCHANGED <<objs, request_has_quota>>

\* the same, with the entry keyed by the content of the value
taint_pyobject_by_content(o, source) ==
    /\ pre_dict' = taint_dict
    /\ last' = Call("taint", o, 0, source, o, "none")
    /\ IF ~request_has_quota
         THEN taint_dict' = taint_dict
       ELSE IF objs[o].val = <<>> \/ objs[o].kind \notin TextKinds
         THEN taint_dict' = taint_dict
       ELSE IF source = None
         THEN taint_dict' = taint_dict
       ELSE taint_dict' =
              [i \in DOMAIN taint_dict \cup {j \in Ids : objs[j] = objs[o]} |->
                  IF objs[i] = objs[o] THEN <<WholeRange(o, source)>> ELSE taint_dict[i]]
    /\ UNCHANGED <<objs, request_has_quota>>

\* the same, without the refusal of empty values
taint_pyobject_accepts_empty(o, source) ==
    /\ pre_dict' = taint_dict
    /\ last' = Call("taint", o, 0, source, o, "none")
    /\ IF ~request_has_quota
         THEN taint_dict' = taint_dict
       ELSE IF objs[o].kind \notin TextKinds
         THEN taint_dict' = taint_dict
       ELSE IF source = None
         THEN taint_dict' = taint_dict
       ELSE taint_dict' = set_ranges(taint_dict, o, <<WholeRange(o, source)>>)
    /\ UNCHANGED <<objs, request_has_quota>>

taint_pyobject(o, source) ==
    /\ pre_dict' = taint_dict
    /\ last' = Call("taint", o, 0, source, o, "none")
    /\ IF ~request_has_quota
         THEN taint_dict' = taint_dict
       ELSE IF objs[o].val = <<>> \/ objs[o].kind \notin TextKinds
         THEN taint_dict' = taint_dict
       ELSE IF source = None
         THEN taint_dict' = taint_dict
       ELSE taint_dict' = set_ranges(taint_dict, o, <<WholeRange(o, source)>>)
    /\ UNCHANGED <<objs, request_has_quota>>

\* ----------------------------------------------------------- concatenation
\* The underlying a + b of the interpreter: operands of different kinds are
\* rejected; with an empty text operand the other operand itself is returned
\* (id 0 stands for a newly allocated result).
add_type_error(op1, op2) == objs[op1].kind # objs[op2].kind

plain_add(op1, op2) ==
    LET obj == [kind |-> objs[op1].kind, val |-> objs[op1].val \o objs[op2].val]
    IN  IF objs[op1].kind \in {"str", "bytes"} /\ objs[op1].val = <<>>
          THEN [id |-> op2, obj |-> obj]
        ELSE IF objs[op1].kind \in {"str", "bytes"} /\ objs[op2].val = <<>>
          THEN [id |-> op1, obj |-> obj]
        ELSE [id |-> 0, obj |-> obj]

\* new_pyobject_id(pyobject, len(pyobject)): a copy with an identity of its own
new_pyobject_id == Len(objs) + 1

\* (source, start + offset, size)
ShiftedRangeNoOffset(r, offset) == r
ShiftedRangeOtherSource(r, offset) == TaintRange(r.start + offset, r.length, "S1")
ShiftedRange(r, offset) == TaintRange(r.start + offset, r.length, r.source)

\* the operation propagates when an operand is tainted
any_tainted_both(d, op1, op2) == is_pyobject_tainted(d, op1) /\ is_pyobject_tainted(d, op2)
any_tainted_always(d, op1, op2) == TRUE
any_tainted(d, op1, op2) == is_pyobject_tainted(d, op1) \/ is_pyobject_tainted(d, op2)

\* new_ranges of add_taint_pyobject
new_ranges_offset_op2(d, op1, op2) ==
    LET left == IF is_pyobject_tainted(d, op1) THEN d[op1] ELSE <<>>
        offset == len(op2)
        right == IF is_pyobject_tainted(d, op2)
                   THEN [k \in 1..Len(d[op2]) |-> ShiftedRange(d[op2][k], offset)]
                   ELSE <<>>
    IN  left \o right

new_ranges(d, op1, op2) ==
    LET left == IF is_pyobject_tainted(d, op1) THEN d[op1] ELSE <<>>
        offset == len(op1)
        right == IF is_pyobject_tainted(d, op2)
                   THEN [k \in 1..Len(d[op2]) |-> ShiftedRange(d[op2][k], offset)]
                   ELSE <<>>
    IN  left \o right

\* taint_dict[id(op)] of an operand seen as tainted raises KeyError when the
\* dictionary holds no entry for it
missing_entry(d, op1, op2) ==
    \/ is_pyobject_tainted(d, op1) /\ op1 \notin DOMAIN d
    \/ is_pyobject_tainted(d, op2) /\ op2 \notin DOMAIN d

\* the same, returning op1 where nothing is to propagate
add_taint_pyobject_returns_op1(pyobject, op1, op2) ==
    IF ~any_tainted(taint_dict, op1, op2)
      THEN /\ UNCHANGED <<objs, taint_dict>>
           /\ last' = Call("add", op1, op2, None, op1, "none")
    ELSE IF missing_entry(taint_dict, op1, op2)
      THEN /\ last' = Call("add", op1, op2, None, 0, "KeyError")
           /\ UNCHANGED <<objs, taint_dict>>
      ELSE /\ objs' = Append(objs, pyobject.obj)
           /\ taint_dict' = (new_pyobject_id :> new_ranges(taint_dict, op1, op2)) @@ taint_dict
           /\ last' = Call("add", op1, op2, None, new_pyobject_id, "none")

\* the same, without new_pyobject_id: the ranges go to the identity the
\* plain operation returned
add_taint_pyobject_no_new_id(pyobject, op1, op2) ==
    LET id == IF pyobject.id = 0 THEN Len(objs) + 1 ELSE pyobject.id
    IN  IF ~any_tainted(taint_dict, op1, op2)
          THEN /\ objs' = IF pyobject.id = 0 THEN Append(objs, pyobject.obj) ELSE objs
               /\ taint_dict' = taint_dict
               /\ last' = Call("add", op1, op2, None, id, "none")
        ELSE IF missing_entry(taint_dict, op1, op2)
          THEN /\ last' = Call("add", op1, op2, None, 0, "KeyError")
               /\ UNCHANGED <<objs, taint_dict>>
          ELSE /\ objs' = IF pyobject.id = 0 THEN Append(objs, pyobject.obj) ELSE objs
               /\ taint_dict' = (id :> new_ranges(taint_dict, op1, op2)) @@ taint_dict
               /\ last' = Call("add", op1, op2, None, id, "none")

add_taint_pyobject(pyobject, op1, op2) ==
    IF ~any_tainted(taint_dict, op1, op2)
      THEN /\ objs' = IF pyobject.id = 0 THEN Append(objs, pyobject.obj) ELSE objs
           /\ taint_dict' = taint_dict
           /\ last' = Call("add", op1, op2, None,
                           IF pyobject.id = 0 THEN Len(objs) + 1 ELSE pyobject.id, "none")
    ELSE IF missing_entry(taint_dict, op1, op2)
      THEN /\ last' = Call("add", op1, op2, None, 0, "KeyError")
           /\ UNCHANGED <<objs, taint_dict>>
      ELSE /\ objs' = Append(objs, pyobject.obj)
           /\ taint_dict' = (new_pyobject_id :> new_ranges(taint_dict, op1, op2)) @@ taint_dict
           /\ last' = Call("add", op1, op2, None, new_pyobject_id, "none")

\* add_aspect(op1, op2): op1 + op2, then add_taint_pyobject(op1 + op2, op1, op2)
add_aspect_wraps_error(op1, op2) ==
    /\ Len(objs) < MaxObjs
    /\ pre_dict' = taint_dict
    /\ UNCHANGED request_has_quota
    /\ IF add_type_error(op1, op2)
         THEN /\ last' = Call("add", op1, op2, None, 0, "AspectError")
              /\ UNCHANGED <<objs, taint_dict>>
         ELSE add_taint_pyobject(plain_add(op1, op2), op1, op2)

add_aspect(op1, op2) ==
    /\ Len(objs) < MaxObjs
    /\ pre_dict' = taint_dict
    /\ UNCHANGED request_has_quota
    /\ IF add_type_error(op1, op2)
         THEN /\ last' = Call("add", op1, op2, None, 0, "TypeError")
              /\ UNCHANGED <<objs, taint_dict>>
         ELSE add_taint_pyobject(plain_add(op1, op2), op1, op2)

\* clear_taint_mapping(): the registry is dropped at the end of a request
clear_taint_mapping ==
    /\ taint_dict # EmptyDict
    /\ taint_dict' = EmptyDict
    /\ pre_dict' = taint_dict
    /\ last' = Call("clear", 0, 0, None, 0, "none")
    /\ UNCHANGED <<objs, request_has_quota>>

\* oce: the quota of the request is granted or used up
set_request_has_quota ==
    /\ request_has_quota' = ~request_has_quota
    /\ pre_dict' = taint_dict
    /\ last' = Call("quota", 0, 0, None, 0, "none")
    /\ UNCHANGED <<objs, taint_dict>>

\* set_tainted_ranges(pyobject, ranges).  The assertion looks the value itself
\* up among the keys of taint_dict, which are identities (integers): a text
\* value is never equal to one of them.
pyobject_in_taint_dict(d, o) == FALSE

RangeInputs(o) == {<<>>, <<TaintRange(0, len(o), "S1")>>}

set_tainted_ranges(o, ranges) ==
    /\ pre_dict' = taint_dict
    /\ UNCHANGED <<objs, request_has_quota>>
    /\ IF pyobject_in_taint_dict(taint_dict, o)
         THEN /\ last' = Call("set_tainted_ranges", o, 0, None, 0, "AssertionError")
              /\ taint_dict' = taint_dict
         ELSE /\ last' = Call("set_tainted_ranges", o, 0, None, 0, "none")
              /\ taint_dict' = (o :> ranges) @@ taint_dict

\* ---------------------------------------------------------- specification
Init ==
    /\ objs \in InitHeaps
    /\ taint_dict = EmptyDict
    /\ request_has_quota \in BOOLEAN
    /\ last = Call("init", 0, 0, None, 0, "none")
    /\ pre_dict = EmptyDict
    /\ NoThreads /\ NoSampling /\ NoTornado

Next ==
    \/ /\ \E o \in Ids, source \in Sources \cup {None} : taint_pyobject(o, source)
       /\ UNCHANGED <<thread_vars, sampling_vars, tornado_vars>>
    \/ /\ \E op1 \in Ids, op2 \in Ids : add_aspect(op1, op2)
       /\ UNCHANGED <<thread_vars, sampling_vars, tornado_vars>>
    \/ /\ clear_taint_mapping
       /\ UNCHANGED <<thread_vars, sampling_vars, tornado_vars>>
    \/ /\ set_request_has_quota
       /\ UNCHANGED <<thread_vars, sampling_vars, tornado_vars>>

Spec == Init /\ [][Next]_vars

\* Direct registration through set_tainted_ranges beside the taint boundary
\* and the concatenation, within one analysed request over str values.
InitReg ==
    /\ Init
    /\ request_has_quota
    /\ \A i \in DOMAIN objs : objs[i].kind = "str"

NextReg ==
    \/ /\ \E o \in Ids : taint_pyobject(o, "S2")
       /\ UNCHANGED <<thread_vars, sampling_vars, tornado_vars>>
    \/ /\ \E op1 \in Ids, op2 \in Ids : add_aspect(op1, op2)
       /\ UNCHANGED <<thread_vars, sampling_vars, tornado_vars>>
    \/ /\ \E o \in Ids : \E ranges \in RangeInputs(o) : set_tainted_ranges(o, ranges)
       /\ UNCHANGED <<thread_vars, sampling_vars, tornado_vars>>

SpecReg == InitReg /\ [][NextReg]_vars

\* --------------------------------------------------------- evidence builder
Chars == {"a", "b"}

RECURSIVE Texts(_)
Texts(n) ==
    IF n = 0 THEN {<<>>}
    ELSE Texts(n - 1) \cup {Append(t, c) : t \in Texts(n - 1), c \in Chars}

\* The range sequences an entry can hold for a value of length n: sorted,
\* not overlapping, inside the value, each range at least one element long.
RECURSIVE RangeSeqsFrom(_, _)
RangeSeqsFrom(p, n) ==
    {<<>>} \cup
    UNION { {<<TaintRange(x[1], x[2], x[3])>> \o rest :
                rest \in RangeSeqsFrom(x[1] + x[2], n)} :
            x \in {y \in (p..(n - 1)) \X (1..n) \X Sources : y[1] + y[2] <= n} }

Min(a, b) == IF a <= b THEN a ELSE b

\* pyobject[i:j] with 0 <= i, 0 <= j: both ends are clamped to the length
Slice(v, i, j) == SubSeq(v, Min(i, Len(v)) + 1, Min(j, Len(v)))

\* _range.source not in sources / sources.index(_range.source)
contains(sources, source) == \E i \in 1..Len(sources) : sources[i] = source
index(sources, source) ==
    (CHOOSE i \in 1..Len(sources) :
        sources[i] = source /\ \A j \in 1..(i - 1) : sources[j] # source) - 1

\* if _range.start > current_pos: value_parts.append({"value": ...})
gap_part_also_empty(v, current_pos, r) ==
    IF r.start >= current_pos
      THEN <<[value |-> Slice(v, current_pos, r.start)]>>
      ELSE <<>>
gap_part(v, current_pos, r) ==
    IF r.start > current_pos
      THEN <<[value |-> Slice(v, current_pos, r.start)]>>
      ELSE <<>>

\* if _range.source not in sources: sources.append(_range.source)
add_source_always(sources, r) == Append(sources, r.source)
add_source(sources, r) ==
    IF ~contains(sources, r.source) THEN Append(sources, r.source) ELSE sources

\* if current_pos < len(pyobject): value_parts.append({"value": pyobject[current_pos:]})
trailing_part_dropped(v, current_pos) == <<>>
trailing_part(v, current_pos) ==
    IF current_pos < Len(v)
      THEN <<[value |-> Slice(v, current_pos, Len(v))]>>
      ELSE <<>>

\* one turn of `for _range in tainted_ranges`
evidence_step(v, acc, r) ==
    LET sources == add_source(acc.sources, r)
    IN  [value_parts |->
             acc.value_parts \o gap_part(v, acc.current_pos, r)
               \o <<[value |-> Slice(v, r.start, r.start + r.length),
                     source |-> index(sources, r.source)]>>,
         sources |-> sources,
         current_pos |-> r.start + r.length]

RECURSIVE evidence_loop(_, _, _, _)
evidence_loop(v, tainted_ranges, k, acc) ==
    IF k > Len(tainted_ranges) THEN acc
    ELSE evidence_loop(v, tainted_ranges, k + 1, evidence_step(v, acc, tainted_ranges[k]))

evidence_of_nothing_when_untainted(v, tainted_ranges) ==
    IF Len(tainted_ranges) = 0
      THEN [value_parts |-> <<>>, sources |-> <<>>]
      ELSE LET acc == evidence_loop(v, tainted_ranges, 1,
                        [value_parts |-> <<>>, sources |-> <<>>, current_pos |-> 0])
           IN  [value_parts |-> acc.value_parts \o trailing_part(v, acc.current_pos),
                sources |-> acc.sources]

\* the pair (value_parts, sources) taint_ranges_as_evidence_info returns
evidence_of(v, tainted_ranges) ==
    IF Len(tainted_ranges) = 0
      THEN [value_parts |-> <<[value |-> v]>>, sources |-> <<>>]
      ELSE LET acc == evidence_loop(v, tainted_ranges, 1,
                        [value_parts |-> <<>>, sources |-> <<>>, current_pos |-> 0])
           IN  [value_parts |-> acc.value_parts \o trailing_part(v, acc.current_pos),
                sources |-> acc.sources]

taint_ranges_as_evidence_info(o) ==
    /\ last.op # "evidence"
    /\ last' = Call("evidence", o, 0, None,
                    evidence_of(objs[o].val, get_tainted_ranges(o)), "none")
    /\ pre_dict' = taint_dict
    /\ UNCHANGED <<objs, taint_dict, request_has_quota>>

\* A text value with an entry of the registry, or with none.
InitEvidence ==
    /\ \E v \in Texts(MaxLen) : \E ranges \in RangeSeqsFrom(0, Len(v)) :
          /\ objs = <<[kind |-> "str", val |-> v]>>
          /\ taint_dict = IF ranges = <<>> THEN EmptyDict ELSE (1 :> ranges)
    /\ request_has_quota = TRUE
    /\ last = Call("init", 0, 0, None, 0, "none")
    /\ pre_dict = EmptyDict
    /\ NoThreads /\ NoSampling /\ NoTornado

NextEvidence ==
    /\ \E o \in Ids : taint_ranges_as_evidence_info(o)
    /\ UNCHANGED <<thread_vars, sampling_vars, tornado_vars>>

SpecEvidence == InitEvidence /\ [][NextEvidence]_vars

\* ------------------------------------------------------------------ slicing
Max(a, b) == IF a >= b THEN a ELSE b

\* The slicing rule: every range that meets [i, j) gives its intersection,
\* counted from i; a range that does not meet [i, j) gives nothing.
slice_range_not_rebased(r, i, j) ==
    IF Max(r.start, i) < Min(r.start + r.length, j)
      THEN <<TaintRange(Max(r.start, i),
                        Min(r.start + r.length, j) - Max(r.start, i), r.source)>>
      ELSE <<>>
slice_range(r, i, j) ==
    IF Max(r.start, i) < Min(r.start + r.length, j)
      THEN <<TaintRange(Max(r.start, i) - i,
                        Min(r.start + r.length, j) - Max(r.start, i), r.source)>>
      ELSE <<>>

RECURSIVE slice_ranges(_, _, _)
slice_ranges(ranges, i, j) ==
    IF ranges = <<>> THEN <<>>
    ELSE slice_range(Head(ranges), i, j) \o slice_ranges(Tail(ranges), i, j)

\* result = v[i:j] through the propagation steps: the quota gate, the tainted
\* check, the plain operation, the registration for the result's identity
slice_aspect(o, i, j) ==
    /\ Len(objs) < MaxObjs
    /\ last.op # "slice"
    /\ pre_dict' = taint_dict
    /\ objs' = Append(objs, [kind |-> objs[o].kind, val |-> Slice(objs[o].val, i, j)])
    /\ last' = Call("slice", o, <<i, j>>, None, Len(objs) + 1, "none")
    /\ taint_dict' =
          IF request_has_quota /\ is_pyobject_tainted(taint_dict, o)
            THEN ((Len(objs) + 1) :> slice_ranges(taint_dict[o], i, j)) @@ taint_dict
            ELSE taint_dict
    /\ UNCHANGED request_has_quota

\* One text of every length up to MaxLen, with an entry of the registry or
\* with none, in a request with or without quota.
InitSlice ==
    /\ \E v \in {t \in Texts(MaxLen) :
                    \A k \in 1..Len(t) : t[k] = IF k % 2 = 1 THEN "a" ELSE "b"} :
          \E ranges \in RangeSeqsFrom(0, Len(v)) :
             /\ objs = <<[kind |-> "str", val |-> v]>>
             /\ taint_dict = IF ranges = <<>> THEN EmptyDict ELSE (1 :> ranges)
    /\ request_has_quota \in BOOLEAN
    /\ last = Call("init", 0, 0, None, 0, "none")
    /\ pre_dict = EmptyDict
    /\ NoThreads /\ NoSampling /\ NoTornado

NextSlice ==
    /\ \E o \in Ids : \E i \in 0..len(o) : \E j \in i..len(o) : slice_aspect(o, i, j)
    /\ UNCHANGED <<thread_vars, sampling_vars, tornado_vars>>

SpecSlice == InitSlice /\ [][NextSlice]_vars

\* ------------------------------------------------------------------ joining
MaxPieces == 3

\* the offset after a piece that is followed by a separator
join_next_offset_without_separator(offset, piece_len, sep_len) == offset + piece_len
join_next_offset(offset, piece_len, sep_len) == offset + piece_len + sep_len

\* sep.join(pieces) of the interpreter
RECURSIVE join_value(_, _)
join_value(sep, pieces) ==
    IF pieces = <<>> THEN <<>>
    ELSE IF Len(pieces) = 1 THEN objs[Head(pieces)].val
    ELSE objs[Head(pieces)].val \o objs[sep].val \o join_value(sep, Tail(pieces))

\* The concatenation rule applied cumulatively: the ranges of every piece
\* shifted by the length of all that stands before it; the separator gives
\* no range and advances the offset.
RECURSIVE join_ranges(_, _, _, _)
join_ranges(d, sep, pieces, offset) ==
    IF pieces = <<>> THEN <<>>
    ELSE LET rs == get_ranges(d, Head(pieces))
         IN  [k \in 1..Len(rs) |-> ShiftedRange(rs[k], offset)]
               \o join_ranges(d, sep, Tail(pieces),
                              join_next_offset(offset, len(Head(pieces)), len(sep)))

\* result = sep.join(pieces) through the propagation steps: the quota gate,
\* the tainted check of the pieces, the plain operation, the registration for
\* the result's identity
join_aspect(sep, pieces) ==
    /\ last.op # "join"
    /\ pre_dict' = taint_dict
    /\ objs' = Append(objs, [kind |-> objs[sep].kind, val |-> join_value(sep, pieces)])
    /\ last' = Call("join", sep, pieces, None, Len(objs) + 1, "none")
    /\ taint_dict' =
          IF /\ request_has_quota
             /\ \E k \in 1..Len(pieces) : is_pyobject_tainted(taint_dict, pieces[k])
            THEN ((Len(objs) + 1) :> join_ranges(taint_dict, sep, pieces, 0)) @@ taint_dict
            ELSE taint_dict
    /\ UNCHANGED request_has_quota

\* The texts a join works on and the entries they can have: none, the whole
\* value, or its second element only.
JoinInputs ==
    { [val |-> <<>>, ranges |-> <<>>],
      [val |-> <<"a">>, ranges |-> <<>>],
      [val |-> <<"a">>, ranges |-> <<TaintRange(0, 1, "S1")>>],
      [val |-> <<"a", "b">>, ranges |-> <<>>],
      [val |-> <<"a", "b">>, ranges |-> <<TaintRange(0, 2, "S1")>>],
      [val |-> <<"a", "b">>, ranges |-> <<TaintRange(1, 1, "S2")>>] }

InitJoin ==
    /\ \E x, y, z \in JoinInputs :
          /\ objs = [i \in 1..3 |-> [kind |-> "str", val |-> <<x, y, z>>[i].val]]
          /\ taint_dict = [i \in {j \in 1..3 : <<x, y, z>>[j].ranges # <<>>} |->
                              <<x, y, z>>[i].ranges]
    /\ request_has_quota \in BOOLEAN
    /\ last = Call("init", 0, 0, None, 0, "none")
    /\ pre_dict = EmptyDict
    /\ NoThreads /\ NoSampling /\ NoTornado

PieceSeqs == UNION {[1..n -> Ids] : n \in 1..MaxPieces}

NextJoin ==
    /\ \E sep \in Ids : \E pieces \in PieceSeqs : join_aspect(sep, pieces)
    /\ UNCHANGED <<thread_vars, sampling_vars, tornado_vars>>

SpecJoin == InitJoin /\ [][NextJoin]_vars

\* ------------------------------------------------------------------ threads
\* add_taint_pyobject statement by statement, on threads that share the
\* registry; pc names the line a thread is to execute next.
Threads == {"t1", "t2"}

Idle ==
    [pc |-> "idle", op1 |-> 0, op2 |-> 0, pyobject |-> 0, new_ranges |-> <<>>,
     seen |-> <<<<>>, <<>>>>, tainted |-> FALSE, cleared |-> FALSE, err |-> "none"]

InCall(t) == threads[t].pc \notin {"idle", "returned", "raised"}

\* taint_dict[id(pyobject)] = tuple(new_ranges)
register_result_dropped(d, pyobject, ranges) == d
register_result(d, pyobject, ranges) == (pyobject :> ranges) @@ d

\* add_aspect(op1, op2) on thread t: op1 + op2, then the call; every thread
\* makes one call, on values that were returned to the application
call_add(t, op1, op2) ==
    /\ threads[t].pc = "idle"
    /\ {op1, op2} \cap {threads[u].pyobject : u \in {v \in Threads : InCall(v)}} = {}
    /\ ~add_type_error(op1, op2)
    /\ threads' = [threads EXCEPT ![t] = [Idle EXCEPT !.pc = "L30", !.op1 = op1, !.op2 = op2]]
    /\ UNCHANGED <<objs, taint_dict>>

\* line 30: if not (is_pyobject_tainted(op1) or is_pyobject_tainted(op2)): return pyobject
line_30(t) ==
    LET th == threads[t]
        pyobject == plain_add(th.op1, th.op2)
        seen == <<get_ranges(taint_dict, th.op1), get_ranges(taint_dict, th.op2)>>
    IN  /\ th.pc = "L30"
        /\ IF ~any_tainted(taint_dict, th.op1, th.op2)
             THEN /\ objs' = IF pyobject.id = 0 THEN Append(objs, pyobject.obj) ELSE objs
                  /\ threads' = [threads EXCEPT ![t] =
                        [th EXCEPT !.pc = "returned", !.seen = seen,
                                   !.pyobject = IF pyobject.id = 0 THEN Len(objs) + 1
                                                ELSE pyobject.id]]
             ELSE /\ objs' = objs
                  /\ threads' = [threads EXCEPT ![t] =
                        [th EXCEPT !.pc = "L33", !.seen = seen, !.tainted = TRUE]]
        /\ UNCHANGED taint_dict

\* lines 33-35: pyobject = new_pyobject_id(pyobject, len(pyobject)); taint_dict = get_taint_dict()
line_33(t) ==
    LET th == threads[t]
    IN  /\ th.pc = "L33"
        /\ objs' = Append(objs, plain_add(th.op1, th.op2).obj)
        /\ threads' = [threads EXCEPT ![t] =
              [th EXCEPT !.pc = "L36", !.pyobject = new_pyobject_id]]
        /\ UNCHANGED taint_dict

\* line 36: if is_pyobject_tainted(op1)
line_36(t) ==
    LET th == threads[t]
    IN  /\ th.pc = "L36"
        /\ threads' = [threads EXCEPT ![t] =
              [th EXCEPT !.pc = IF is_pyobject_tainted(taint_dict, th.op1)
                                  THEN "L37" ELSE "L38"]]
        /\ UNCHANGED <<objs, taint_dict>>

\* line 37: new_ranges = list(taint_dict[id(op1)])
line_37(t) ==
    LET th == threads[t]
    IN  /\ th.pc = "L37"
        /\ threads' = [threads EXCEPT ![t] =
              IF th.op1 \in DOMAIN taint_dict
                THEN [th EXCEPT !.pc = "L38", !.new_ranges = taint_dict[th.op1]]
                ELSE [th EXCEPT !.pc = "raised", !.err = "KeyError"]]
        /\ UNCHANGED <<objs, taint_dict>>

\* line 38: if is_pyobject_tainted(op2)
line_38(t) ==
    LET th == threads[t]
    IN  /\ th.pc = "L38"
        /\ threads' = [threads EXCEPT ![t] =
              [th EXCEPT !.pc = IF is_pyobject_tainted(taint_dict, th.op2)
                                  THEN "L39" ELSE "L43"]]
        /\ UNCHANGED <<objs, taint_dict>>

\* lines 39-41: offset = len(op1); every range of taint_dict[id(op2)] is appended, shifted
line_39(t) ==
    LET th == threads[t]
        offset == len(th.op1)
    IN  /\ th.pc = "L39"
        /\ threads' = [threads EXCEPT ![t] =
              IF th.op2 \in DOMAIN taint_dict
                THEN [th EXCEPT !.pc = "L43",
                        !.new_ranges = th.new_ranges \o
                            [k \in 1..Len(taint_dict[th.op2]) |->
                                ShiftedRange(taint_dict[th.op2][k], offset)]]
                ELSE [th EXCEPT !.pc = "raised", !.err = "KeyError"]]
        /\ UNCHANGED <<objs, taint_dict>>

\* line 43: taint_dict[id(pyobject)] = tuple(new_ranges)
line_43(t) ==
    LET th == threads[t]
    IN  /\ th.pc = "L43"
        /\ taint_dict' = register_result(taint_dict, th.pyobject, th.new_ranges)
        /\ threads' = [threads EXCEPT ![t] = [th EXCEPT !.pc = "L44"]]
        /\ UNCHANGED objs

\* line 44: return pyobject
line_44(t) ==
    LET th == threads[t]
    IN  /\ th.pc = "L44"
        /\ threads' = [threads EXCEPT ![t] = [th EXCEPT !.pc = "returned"]]
        /\ UNCHANGED <<objs, taint_dict>>

\* a clear reaches every thread that is in a call or holds a result
clear_seen_by_threads ==
    threads' = [t \in Threads |->
                   IF threads[t].pc = "idle" THEN threads[t]
                   ELSE [threads[t] EXCEPT !.cleared = TRUE]]

\* Two text values of a request, the first tainted while the request had
\* quota, the second tainted or not.
InitThreads ==
    /\ objs \in {h \in InitHeaps : /\ Len(h) = 2
                                    /\ h[1].val # <<>>
                                    /\ \A i \in DOMAIN h : h[i].kind = "str"}
    /\ taint_dict \in
          {(1 :> <<WholeRange(1, "S1")>>)} \cup
          {(1 :> <<WholeRange(1, "S1")>>) @@ (i :> <<WholeRange(i, "S2")>>) :
              i \in {j \in {2} : objs[j].val # <<>>}}
    /\ request_has_quota = TRUE
    /\ last = Call("init", 0, 0, None, 0, "none")
    /\ pre_dict = EmptyDict
    /\ threads = [t \in Threads |-> Idle]
    /\ NoSampling /\ NoTornado

NextThreads ==
    \/ /\ \E t \in Threads : \E op1 \in Ids, op2 \in Ids : call_add(t, op1, op2)
       /\ UNCHANGED <<request_has_quota, last, pre_dict, sampling_vars, tornado_vars>>
    \/ /\ \E t \in Threads : line_30(t)
       /\ UNCHANGED <<request_has_quota, last, pre_dict, sampling_vars, tornado_vars>>
    \/ /\ \E t \in Threads : line_33(t)
       /\ UNCHANGED <<request_has_quota, last, pre_dict, sampling_vars, tornado_vars>>
    \/ /\ \E t \in Threads : line_36(t)
       /\ UNCHANGED <<request_has_quota, last, pre_dict, sampling_vars, tornado_vars>>
    \/ /\ \E t \in Threads : line_37(t)
       /\ UNCHANGED <<request_has_quota, last, pre_dict, sampling_vars, tornado_vars>>
    \/ /\ \E t \in Threads : line_38(t)
       /\ UNCHANGED <<request_has_quota, last, pre_dict, sampling_vars, tornado_vars>>
    \/ /\ \E t \in Threads : line_39(t)
       /\ UNCHANGED <<request_has_quota, last, pre_dict, sampling_vars, tornado_vars>>
    \/ /\ \E t \in Threads : line_43(t)
       /\ UNCHANGED <<request_has_quota, last, pre_dict, sampling_vars, tornado_vars>>
    \/ /\ \E t \in Threads : line_44(t)
       /\ UNCHANGED <<request_has_quota, last, pre_dict, sampling_vars, tornado_vars>>
    \/ /\ clear_taint_mapping
       /\ clear_seen_by_threads
       /\ UNCHANGED <<sampling_vars, tornado_vars>>

SpecThreads == InitThreads /\ [][NextThreads]_vars

\* ----------------------------------------------------------------- sampling
\* Texts are sequences of characters.  GlobMatcher(pattern).match(subject):
\* "?" stands for one character, "*" for any number of them.
RECURSIVE glob_match(_, _)
glob_match(pattern, subject) ==
    IF pattern = <<>> THEN subject = <<>>
    ELSE IF Head(pattern) = "*"
      THEN \/ glob_match(Tail(pattern), subject)
           \/ subject # <<>> /\ glob_match(pattern, Tail(subject))
    ELSE /\ subject # <<>>
         /\ Head(pattern) \in {"?", Head(subject)}
         /\ glob_match(Tail(pattern), Tail(subject))

\* None where a text may stand: a sequence that is no text
NoText == <<None>>

TagKeys == {"k1", "k2"}
GlobPatterns == {<<"a", "*">>, <<"?">>}
TagValues == {<<"a">>, <<"b">>, <<"a", "b">>}

\* _tag_value_matchers in the order its keys are iterated
TagMatchers ==
    {<<>>} \cup {<<[key |-> k, pattern |-> g]>> : k \in TagKeys, g \in GlobPatterns}
      \cup {<<[key |-> ks[1], pattern |-> g1], [key |-> ks[2], pattern |-> g2]>> :
               ks \in {x \in TagKeys \X TagKeys : x[1] # x[2]},
               g1 \in GlobPatterns, g2 \in GlobPatterns}

Rules ==
    [service : {NoText, <<"a", "*">>}, name : {NoText, <<"a", "*">>},
     resource : {NoText, <<"a", "*">>}, tags : TagMatchers]

Spans ==
    [service : {NoText, <<"a">>, <<"b">>}, name : {NoText, <<"a">>},
     resource : {NoText, <<"b">>}, tags : [TagKeys -> TagValues \cup {NoText}]]

\* span.get_tag(key) / tags.get(key): None for a tag the span does not have
get_tag(tags, key) == tags[key]

\* not tags: the span has no tag at all
no_tags(tags) == \A k \in TagKeys : tags[k] = NoText

\* for tag_key in self._tag_value_matchers.keys(): the loop either returns
\* False at a tag the span lacks or ends with the tag_match it assigned last
RECURSIVE tag_loop(_, _, _, _)
tag_loop(matchers, tags, k, tag_match) ==
    IF k > Len(matchers) THEN [returned |-> FALSE, tag_match |-> tag_match]
    ELSE LET value == get_tag(tags, matchers[k].key)
         IN  IF value # NoText
               THEN tag_loop(matchers, tags, k + 1, glob_match(matchers[k].pattern, value))
               ELSE [returned |-> TRUE, tag_match |-> FALSE]

\* tags is None: span.get_tags() hands over a dictionary, empty for a span
\* without tags
tags_is_None(tags) == FALSE

\* SamplingRule.tag_match(tags)
tag_match(matchers, tags) ==
    IF tags_is_None(tags) THEN FALSE
    ELSE LET loop == tag_loop(matchers, tags, 1, FALSE)
         IN  IF loop.returned THEN FALSE ELSE loop.tag_match

\* SpanSamplingRule.match(span)
match(r, sp) ==
    IF sp.service = NoText /\ sp.name = NoText /\ sp.resource \in {NoText, <<>>} /\ no_tags(sp.tags)
      THEN FALSE
    ELSE IF r.service # NoText /\ sp.service = NoText THEN FALSE
    ELSE IF r.name # NoText /\ sp.name = NoText THEN FALSE
    ELSE IF r.resource # NoText /\ sp.resource = NoText THEN FALSE
    ELSE LET service_match == IF r.service # NoText THEN glob_match(r.service, sp.service) ELSE TRUE
             name_match == IF r.name # NoText THEN glob_match(r.name, sp.name) ELSE TRUE
             resource_match ==
                 IF r.resource # NoText THEN glob_match(r.resource, sp.resource) ELSE TRUE
             loop == IF r.tags # <<>>
                       THEN IF tags_is_None(sp.tags)
                              THEN [returned |-> TRUE, tag_match |-> FALSE]
                              ELSE tag_loop(r.tags, sp.tags, 1, TRUE)
                       ELSE [returned |-> FALSE, tag_match |-> TRUE]
         IN  IF loop.returned THEN FALSE
             ELSE service_match /\ name_match /\ resource_match /\ loop.tag_match

SpanSamplingRule_match ==
    /\ last.op # "match"
    /\ last' = Call("match", 0, 0, None, match(rule, span), "none")
    /\ UNCHANGED <<taint_vars, thread_vars, sampling_vars, tornado_vars>>

SamplingRule_tag_match ==
    /\ last.op # "tag_match"
    /\ rule.tags # <<>>
    /\ last' = Call("tag_match", 0, 0, None, tag_match(rule.tags, span.tags), "none")
    /\ UNCHANGED <<taint_vars, thread_vars, sampling_vars, tornado_vars>>

InitMatch ==
    /\ rule \in Rules
    /\ span \in Spans
    /\ _meta = EmptyDict /\ pre_meta = EmptyDict
    /\ last = Call("init", 0, 0, None, 0, "none")
    /\ NoTaint /\ NoThreads /\ NoTornado

NextMatch ==
    \/ SpanSamplingRule_match
    \/ SamplingRule_tag_match

SpecMatch == InitMatch /\ [][NextMatch]_vars

\* ------------------------------------------------------- sampling decision
MaxMechanism == 10

\* SamplingMechanism.MANUAL
MANUAL == 4

SAMPLING_DECISION_TRACE_TAG_KEY == "_dd.p.dm"
MetaKeys == {SAMPLING_DECISION_TRACE_TAG_KEY, "_dd.origin"}
MetaValues == {<<"-", "3">>, <<"x">>}

DigitChars == <<"0", "1", "2", "3", "4", "5", "6", "7", "8", "9">>

\* "%d" % n for n >= 0
RECURSIVE decimal(_)
decimal(n) ==
    IF n < 10 THEN <<DigitChars[n + 1]>>
    ELSE decimal(n \div 10) \o <<DigitChars[(n % 10) + 1]>>

\* del d[key]
del(d, key) == [k \in DOMAIN d \ {key} |-> d[k]]

\* _set_trace_tag(context, sampling_mechanism): the new _meta and the value returned
_set_trace_tag(meta, sampling_mechanism) ==
    LET value == <<"-">> \o decimal(sampling_mechanism)
    IN  [meta |-> (SAMPLING_DECISION_TRACE_TAG_KEY :> value) @@ meta, ret |-> value]

\* _unset_trace_tag(context)
_unset_trace_tag_keeps_tag(meta) ==
    IF SAMPLING_DECISION_TRACE_TAG_KEY \notin DOMAIN meta
      THEN [meta |-> meta, ret |-> NoText]
      ELSE [meta |-> meta, ret |-> meta[SAMPLING_DECISION_TRACE_TAG_KEY]]
_unset_trace_tag(meta) ==
    IF SAMPLING_DECISION_TRACE_TAG_KEY \notin DOMAIN meta
      THEN [meta |-> meta, ret |-> NoText]
      ELSE [meta |-> del(meta, SAMPLING_DECISION_TRACE_TAG_KEY),
            ret |-> meta[SAMPLING_DECISION_TRACE_TAG_KEY]]

update_sampling_decision(sampling_mechanism, sampled) ==
    LET out == IF sampled /\ sampling_mechanism # MANUAL
                 THEN _set_trace_tag(_meta, sampling_mechanism)
                 ELSE _unset_trace_tag(_meta)
    IN  /\ pre_meta' = _meta
        /\ _meta' = out.meta
        /\ last' = Call("update_sampling_decision", sampling_mechanism, sampled,
                        None, out.ret, "none")
        /\ UNCHANGED <<rule, span, taint_vars, thread_vars, tornado_vars>>

InitDecision ==
    /\ _meta \in UNION {[D -> MetaValues] : D \in SUBSET MetaKeys}
    /\ pre_meta = _meta
    /\ rule = <<>> /\ span = <<>>
    /\ last = Call("init", 0, 0, None, 0, "none")
    /\ NoTaint /\ NoThreads /\ NoTornado

NextDecision ==
    \E sampling_mechanism \in 0..MaxMechanism, sampled \in BOOLEAN :
        update_sampling_decision(sampling_mechanism, sampled)

SpecDecision == InitDecision /\ [][NextDecision]_vars

\* ------------------------------------------------------------------ tornado
MaxStackContexts == 2
MaxEnters == 2

Ctxs == {"ctx1", "ctx2"}

\* a stack context object; old_contexts and new_contexts name tuples by their
\* place in `contexts` (0: not set, or None)
StackContext(kind) ==
    [kind |-> kind, old_contexts |-> 0, new_contexts |-> 0, _context |-> None]

\* the tuple (stack, head) that _state.contexts is bound to
ContextsTuple(stack, head) == [stack |-> stack, head |-> head]

isinstance(m, kind) == stack_contexts[m].kind = kind

TracerStackContexts == {m \in DOMAIN stack_contexts : isinstance(m, "TracerStackContext")}

\* the places of the TracerStackContext objects in _state.contexts[0]
tracers_in(stack) == {i \in DOMAIN stack : isinstance(stack[i], "TracerStackContext")}

\* _get_state_active_context: the first TracerStackContext of reversed(_state.contexts[0])
_get_state_active_context ==
    LET stack == contexts[_state_contexts].stack
    IN  IF tracers_in(stack) = {} THEN None
        ELSE LET i == CHOOSE j \in tracers_in(stack) : \A k \in tracers_in(stack) : k <= j
             IN  stack_contexts[stack[i]]._context

\* active()
active == IF ~io_loop THEN local_context ELSE _get_state_active_context

\* TracerStackContext()
new_TracerStackContext ==
    /\ Cardinality(TracerStackContexts) < MaxStackContexts
    /\ stack_contexts' = Append(stack_contexts, StackContext("TracerStackContext"))
    /\ last' = Call("TracerStackContext", 0, 0, None, Len(stack_contexts) + 1, "none")
    /\ UNCHANGED <<contexts, _state_contexts, blocks, io_loop, local_context>>

\* __enter__; the with-block it opens remembers what it captured and
\* installed, what active() returned before it, and whether its object was
\* entered while a with-block of the same object was open
__enter__(m) ==
    LET old_contexts == _state_contexts
        new_contexts == Len(contexts) + 1
    IN  /\ Len(contexts) <= MaxEnters
        /\ contexts' = Append(contexts,
              ContextsTuple(Append(contexts[old_contexts].stack, m), m))
        /\ stack_contexts' = [stack_contexts EXCEPT ![m].old_contexts = old_contexts,
                                                     ![m].new_contexts = new_contexts]
        /\ _state_contexts' = new_contexts
        /\ blocks' = Append([k \in DOMAIN blocks |->
                                IF blocks[k].m = m THEN [blocks[k] EXCEPT !.reentered = TRUE]
                                ELSE blocks[k]],
                            [m |-> m, captured |-> old_contexts, installed |-> new_contexts,
                             outer_active |-> active,
                             reentered |-> \E k \in DOMAIN blocks : blocks[k].m = m,
                             nested |-> TRUE])
        /\ last' = Call("__enter__", m, 0, None, m, "none")
        /\ UNCHANGED <<io_loop, local_context>>

\* _state.contexts = self.old_contexts
restored_contexts_final(m) == _state_contexts
restored_contexts(m) == stack_contexts[m].old_contexts

\* __exit__ of the with-block k; the blocks that stay open remember an exit
\* that was out of order or inconsistent
__exit__(k) ==
    LET m == blocks[k].m
        final_contexts == _state_contexts
    IN  /\ _state_contexts' = restored_contexts(m)
        /\ IF final_contexts # stack_contexts[m].new_contexts
             THEN /\ last' = Call("__exit__", m, <<k, blocks[k]>>, None, final_contexts,
                                  "StackContextInconsistentError")
                  /\ stack_contexts' = stack_contexts
             ELSE /\ last' = Call("__exit__", m, <<k, blocks[k]>>, None, final_contexts, "none")
                  /\ stack_contexts' = [stack_contexts EXCEPT ![m].new_contexts = 0]
        /\ blocks' = [i \in 1..(Len(blocks) - 1) |->
                         LET b == IF i < k THEN blocks[i] ELSE blocks[i + 1]
                         IN  IF k = Len(blocks) /\ final_contexts = stack_contexts[m].new_contexts
                               THEN b
                               ELSE [b EXCEPT !.nested = FALSE]]
        /\ UNCHANGED <<contexts, io_loop, local_context>>

\* activate(ctx)
activate(ctx) ==
    /\ last' = Call("activate", ctx, [m \in DOMAIN stack_contexts |-> stack_contexts[m]._context],
                    None, ctx, "none")
    /\ IF ~io_loop
         THEN /\ local_context' = ctx
              /\ stack_contexts' = stack_contexts
         ELSE /\ local_context' = local_context
              /\ stack_contexts' =
                    LET stack == contexts[_state_contexts].stack
                    IN  [m \in DOMAIN stack_contexts |->
                            IF \E i \in tracers_in(stack) : stack[i] = m
                              THEN [stack_contexts[m] EXCEPT !._context = ctx]
                              ELSE stack_contexts[m]]
    /\ UNCHANGED <<contexts, _state_contexts, blocks, io_loop>>

\* A thread inside or outside an IO loop; _state.contexts is the empty stack
\* or holds a stack context of tornado itself.
InitTornado ==
    /\ stack_contexts = <<StackContext("StackContext")>>
    /\ contexts \in {<<ContextsTuple(<<>>, 0)>>, <<ContextsTuple(<<1>>, 1)>>}
    /\ _state_contexts = 1
    /\ blocks = <<>>
    /\ io_loop \in BOOLEAN
    /\ local_context = None
    /\ last = Call("init", 0, 0, None, 0, "none")
    /\ NoTaint /\ NoThreads /\ NoSampling

NextTornado ==
    \/ /\ new_TracerStackContext
       /\ UNCHANGED <<taint_vars, thread_vars, sampling_vars>>
    \/ /\ \E m \in TracerStackContexts : __enter__(m)
       /\ UNCHANGED <<taint_vars, thread_vars, sampling_vars>>
    \/ /\ \E k \in DOMAIN blocks : __exit__(k)
       /\ UNCHANGED <<taint_vars, thread_vars, sampling_vars>>
    \/ /\ \E ctx \in Ctxs : activate(ctx)
       /\ UNCHANGED <<taint_vars, thread_vars, sampling_vars>>

SpecTornado == InitTornado /\ [][NextTornado]_vars

\* ================================================================ claims
\* What the last call saw before it ran.
Before(o) == get_ranges(pre_dict, o)
WasTainted(o) == Before(o) # <<>>
AddReturned == last.op = "add" /\ last.err = "none"
TaintCalled == last.op = "taint"

\* a's ranges followed by b's ranges moved right by len(a)
Concatenated(ra, rb, n) ==
    [k \in 1..(Len(ra) + Len(rb)) |->
        IF k <= Len(ra) THEN ra[k]
        ELSE [start |-> rb[k - Len(ra)].start + n,
              length |-> rb[k - Len(ra)].length,
              source |-> rb[k - Len(ra)].source]]

\* C1: after a concatenation a + b with a tainted operand, the ranges of the
\* result are a's ranges unchanged followed by b's ranges with start increased
\* by len(a); with only a tainted they are a's ranges, and their number is
\* len(ranges(a)) + len(ranges(b)).
C1_ConcatOffsets ==
    (AddReturned /\ (WasTainted(last.a) \/ WasTainted(last.b))) =>
        /\ get_tainted_ranges(last.ret)
             = Concatenated(Before(last.a), Before(last.b), len(last.a))
        /\ Len(get_tainted_ranges(last.ret))
             = Len(Before(last.a)) + Len(Before(last.b))
        /\ (~WasTainted(last.b) => get_tainted_ranges(last.ret) = Before(last.a))

C1_Witness ==
    /\ AddReturned
    /\ last.a # last.b
    /\ WasTainted(last.a)
    /\ Len(Before(last.b)) >= 2
    /\ len(last.a) >= 1

\* C2: every entry of the registry is sorted by start and its ranges do not
\* overlap: r.start + r.length <= r'.start for consecutive r, r'.
C2_SortedDisjoint ==
    \A i \in DOMAIN taint_dict :
        \A k \in 1..(Len(taint_dict[i]) - 1) :
            taint_dict[i][k].start + taint_dict[i][k].length <= taint_dict[i][k + 1].start

C2_Witness ==
    \E i \in DOMAIN taint_dict :
        /\ Len(taint_dict[i]) >= 3
        /\ taint_dict[i][1].source # taint_dict[i][2].source

\* C3: every registered range lies inside its value:
\* 0 <= start and start + length <= len(value).
C3_RangesInsideValue ==
    \A i \in DOMAIN taint_dict :
        \A k \in 1..Len(taint_dict[i]) :
            /\ 0 <= taint_dict[i][k].start
            /\ taint_dict[i][k].start + taint_dict[i][k].length <= len(i)

C3_Witness ==
    /\ AddReturned
    /\ Len(get_tainted_ranges(last.ret)) >= 2
    /\ \E k \in 1..Len(get_tainted_ranges(last.ret)) :
          /\ get_tainted_ranges(last.ret)[k].start > 0
          /\ get_tainted_ranges(last.ret)[k].start
               + get_tainted_ranges(last.ret)[k].length = len(last.ret)

\* C4: with quota, a non-empty text value and a source, taint returns the value
\* and its ranges are then exactly one range [0, len(value)) of that source.
TaintApplies ==
    /\ TaintCalled
    /\ request_has_quota
    /\ objs[last.a].kind \in TextKinds
    /\ objs[last.a].val # <<>>
    /\ last.src # None

C5_TaintedIffOperand ==
    AddReturned =>
        /\ is_pyobject_tainted(taint_dict, last.ret)
             <=> (WasTainted(last.a) \/ WasTainted(last.b))
        /\ (~(WasTainted(last.a) \/ WasTainted(last.b)) => taint_dict = pre_dict)

C5_Witness ==
    /\ AddReturned
    /\ ~WasTainted(last.a)
    /\ WasTainted(last.b)
    /\ is_pyobject_tainted(taint_dict, last.ret)

\* C6 (as stated): without quota, taint returns the value, registers nothing
\* and the value is not tainted afterwards, whatever the value.
C6_QuotaGateUntaints ==
    (TaintCalled /\ ~request_has_quota) =>
        /\ last.ret = last.a
        /\ taint_dict = pre_dict
        /\ ~is_pyobject_tainted(taint_dict, last.a)

\* C6 (amended): without quota, taint returns the value and leaves the
\* registry as it was, so the value is tainted afterwards exactly when it was
\* tainted before the call.
C6_QuotaGateNoOp ==
    (TaintCalled /\ ~request_has_quota) =>
        /\ last.ret = last.a
        /\ last.err = "none"
        /\ taint_dict = pre_dict
        /\ is_pyobject_tainted(taint_dict, last.a) <=> WasTainted(last.a)

C6_Witness ==
    /\ TaintCalled
    /\ ~request_has_quota
    /\ last.src # None
    /\ objs[last.a].kind \in TextKinds
    /\ objs[last.a].val # <<>>
    /\ ~WasTainted(last.a)
    /\ taint_dict # EmptyDict

\* C7: without quota, a concatenation returns the plain result and leaves the
\* registry untouched, even with an operand tainted while quota was available.
C7_QuotaGateConcat ==
    (AddReturned /\ ~request_has_quota) =>
        /\ taint_dict = pre_dict
        /\ last.ret \notin DOMAIN taint_dict \/ last.ret \in {last.a, last.b}

\* C8: taint with no source, an empty value or a value that is no text raises
\* nothing, returns the value it was given and leaves the registry unchanged.
TaintMalformed ==
    /\ TaintCalled
    /\ \/ last.src = None
       \/ objs[last.a].val = <<>>
       \/ objs[last.a].kind \notin TextKinds

C8_MalformedNoOp ==
    TaintMalformed =>
        /\ last.err = "none"
        /\ last.ret = last.a
        /\ taint_dict = pre_dict
        /\ is_pyobject_tainted(taint_dict, last.a) <=> WasTainted(last.a)

C8_Witness ==
    /\ TaintMalformed
    /\ request_has_quota
    /\ last.src = None
    /\ objs[last.a].kind \in TextKinds
    /\ objs[last.a].val # <<>>
    /\ WasTainted(last.a)

\* C9: registering ranges for an identity that already has an entry fails and
\* keeps the entry; a registration (set_tainted_ranges, add_taint_pyobject)
\* never assigns an entry that exists.
C9_RegisterOnce ==
    /\ (last.op = "set_tainted_ranges" /\ last.a \in DOMAIN pre_dict) =>
           (last.err = "AssertionError" /\ taint_dict = pre_dict)
    /\ (last.op \in {"set_tainted_ranges", "add"}) =>
           \A i \in DOMAIN pre_dict : i \in DOMAIN taint_dict /\ taint_dict[i] = pre_dict[i]

C12_TaintOnlyThatIdentity ==
    TaintCalled =>
        /\ last.ret = last.a
        /\ \A i \in (Ids \cup DOMAIN pre_dict \cup DOMAIN taint_dict) \ {last.ret} :
              /\ i \in DOMAIN taint_dict <=> i \in DOMAIN pre_dict
              /\ get_ranges(taint_dict, i) = get_ranges(pre_dict, i)

C12_Witness ==
    /\ TaintApplies
    /\ \E i \in Ids \ {last.a} :
          /\ objs[i] = objs[last.a]
          /\ i \notin DOMAIN taint_dict

\* C13: when the operands cannot be added, the aspect raises the error of
\* the plain operation and leaves the registry as it was.
PlainError(op1, op2) == IF objs[op1].kind # objs[op2].kind THEN "TypeError" ELSE "none"

C14_SameFunctionalResult ==
    AddReturned =>
        /\ last.ret \in Ids
        /\ objs[last.ret].kind = objs[last.a].kind
        /\ objs[last.ret].val = objs[last.a].val \o objs[last.b].val

C14_Witness ==
    /\ AddReturned
    /\ ~request_has_quota
    /\ WasTainted(last.b)
    /\ ~WasTainted(last.a)
    /\ objs[last.a].val # <<>>

\* C15: with a tainted operand the ranges are registered under the identity
\* of the returned result, which is new and is neither operand, also when an
\* operand is empty; the entries of the operands and of every other identity
\* stay as they were.
C15_FreshResultIdentity ==
    (AddReturned /\ (WasTainted(last.a) \/ WasTainted(last.b))) =>
        /\ last.ret \notin {last.a, last.b}
        /\ last.ret = Len(objs)
        /\ last.ret \notin DOMAIN pre_dict
        /\ DOMAIN taint_dict = DOMAIN pre_dict \cup {last.ret}
        /\ \A i \in DOMAIN pre_dict : taint_dict[i] = pre_dict[i]

C15_Witness ==
    /\ AddReturned
    /\ WasTainted(last.a)
    /\ objs[last.b].val = <<>>
    /\ objs[last.b].kind = objs[last.a].kind
    /\ last.ret \notin {last.a, last.b}
    /\ get_tainted_ranges(last.ret) = Before(last.a)

\* ------------------------------------------------------ evidence claims
EvidenceBuilt == last.op = "evidence"
EvValue == objs[last.a].val
EvRanges == get_tainted_ranges(last.a)
EvParts == last.ret.value_parts
EvSources == last.ret.sources
IsTaintedPart(part) == "source" \in DOMAIN part

RECURSIVE JoinValues(_)
JoinValues(parts) ==
    IF parts = <<>> THEN <<>> ELSE Head(parts).value \o JoinValues(Tail(parts))

\* the positions of the tainted segments among the segments, in order
TaintedPositions(parts) ==
    LET T(i) == IsTaintedPart(parts[i])
    IN  SelectSeq([i \in 1..Len(parts) |-> i], T)

RangeEnd(r) == r.start + r.length

\* C16: the values of the segments, joined in order, are the value itself.
C16_EvidenceRoundTrip ==
    EvidenceBuilt => JoinValues(EvParts) = EvValue

C16_Witness ==
    /\ EvidenceBuilt
    /\ Len(EvRanges) >= 2
    /\ EvRanges[1].start > 0
    /\ RangeEnd(EvRanges[1]) < EvRanges[2].start
    /\ Len(EvParts) = 4
    /\ EvValue[1] # EvValue[3]

\* C17: for a value without ranges the evidence is one segment holding the
\* whole value, without a source index, and an empty list of sources.
C17_UntaintedEvidence ==
    (EvidenceBuilt /\ EvRanges = <<>>) =>
        /\ Len(EvParts) = 1
        /\ EvParts[1].value = EvValue
        /\ ~IsTaintedPart(EvParts[1])
        /\ EvSources = <<>>

C17_Witness ==
    /\ EvidenceBuilt
    /\ EvRanges = <<>>
    /\ Len(EvValue) >= 2
    /\ Len(EvParts) = 1

\* first position of a source among the ranges
FirstUse(source) ==
    CHOOSE k \in 1..Len(EvRanges) :
        EvRanges[k].source = source /\ \A m \in 1..(k - 1) : EvRanges[m].source # source

\* C18: the list of sources has no source twice and is ordered by first
\* occurrence among the ranges; the index of every tainted segment is valid
\* and names the source of the range the segment comes from.
C18_SourcesDeduplicated ==
    (EvidenceBuilt /\ EvRanges # <<>>) =>
        LET tp == TaintedPositions(EvParts)
        IN  /\ \A i, j \in 1..Len(EvSources) : i # j => EvSources[i] # EvSources[j]
            /\ {EvSources[i] : i \in 1..Len(EvSources)}
                 = {EvRanges[k].source : k \in 1..Len(EvRanges)}
            /\ \A i, j \in 1..Len(EvSources) :
                  i < j => FirstUse(EvSources[i]) < FirstUse(EvSources[j])
            /\ Len(tp) = Len(EvRanges)
            /\ \A k \in 1..Len(tp) :
                  /\ EvParts[tp[k]].source \in 0..(Len(EvSources) - 1)
                  /\ EvSources[EvParts[tp[k]].source + 1] = EvRanges[k].source

C18_Witness ==
    /\ EvidenceBuilt
    /\ Len(EvRanges) >= 3
    /\ EvRanges[1].source = EvRanges[3].source
    /\ EvRanges[1].source # EvRanges[2].source
    /\ Len(EvSources) = 2

\* C19: one tainted segment per range, in the order of the ranges, holding
\* v[start:start+length]; an untainted segment stands exactly before a range
\* that follows a non-empty gap and after the last range when it ends before
\* the value does; so no untainted segment is empty and no two are adjacent.
C19_SegmentsFollowRanges ==
    (EvidenceBuilt /\ EvRanges # <<>>) =>
        LET tp == TaintedPositions(EvParts)
            n == Len(EvRanges)
        IN  /\ Len(tp) = n
            /\ \A k \in 1..n :
                  LET prevEnd == IF k = 1 THEN 0 ELSE RangeEnd(EvRanges[k - 1])
                      prevPos == IF k = 1 THEN 0 ELSE tp[k - 1]
                  IN  /\ EvParts[tp[k]].value
                           = Slice(EvValue, EvRanges[k].start, RangeEnd(EvRanges[k]))
                      /\ IF EvRanges[k].start > prevEnd
                            THEN /\ tp[k] = prevPos + 2
                                 /\ EvParts[tp[k] - 1].value
                                      = Slice(EvValue, prevEnd, EvRanges[k].start)
                            ELSE tp[k] = prevPos + 1
            /\ IF RangeEnd(EvRanges[n]) < Len(EvValue)
                  THEN /\ Len(EvParts) = tp[n] + 1
                       /\ EvParts[Len(EvParts)].value
                            = Slice(EvValue, RangeEnd(EvRanges[n]), Len(EvValue))
                  ELSE Len(EvParts) = tp[n]
            /\ \A i \in 1..Len(EvParts) :
                  ~IsTaintedPart(EvParts[i]) => EvParts[i].value # <<>>
            /\ \A i \in 1..(Len(EvParts) - 1) :
                  IsTaintedPart(EvParts[i]) \/ IsTaintedPart(EvParts[i + 1])

C19_Witness ==
    /\ EvidenceBuilt
    /\ Len(EvRanges) = 2
    /\ EvRanges[1].start = 0
    /\ RangeEnd(EvRanges[1]) = EvRanges[2].start
    /\ RangeEnd(EvRanges[2]) < Len(EvValue)
    /\ Len(EvParts) = 3

\* --------------------------------------------------------- slicing claim
Sliced == last.op = "slice"
SliceFrom == last.b[1]
SliceTo == last.b[2]

\* the source that taints position p under a range sequence, None without one
SourceAt(ranges, p) ==
    IF \E k \in 1..Len(ranges) : ranges[k].start <= p /\ p < RangeEnd(ranges[k])
      THEN LET k == CHOOSE m \in 1..Len(ranges) :
                       ranges[m].start <= p /\ p < RangeEnd(ranges[m])
           IN  ranges[k].source
      ELSE None

Meets(r) == Max(r.start, SliceFrom) < Min(RangeEnd(r), SliceTo)

\* C20: the ranges of v[i:j] of a tainted v are, in order, the non-empty
\* intersections of v's ranges with [i, j): start = max(r.start, i) - i,
\* length = min(r.start + r.length, j) - max(r.start, i), the source of r;
\* ranges that do not meet [i, j) are dropped.
C20_SliceIntersections ==
    (Sliced /\ request_has_quota /\ WasTainted(last.a)) =>
        LET kept == SelectSeq(Before(last.a), Meets)
            got == get_tainted_ranges(last.ret)
        IN  /\ Len(got) = Len(kept)
            /\ \A k \in 1..Len(kept) :
                  /\ got[k].start = Max(kept[k].start, SliceFrom) - SliceFrom
                  /\ got[k].length = Min(RangeEnd(kept[k]), SliceTo)
                                        - Max(kept[k].start, SliceFrom)
                  /\ got[k].source = kept[k].source
            /\ \A q \in 0..(SliceTo - SliceFrom - 1) :
                  SourceAt(got, q) = SourceAt(Before(last.a), q + SliceFrom)

C20_Witness ==
    /\ Sliced
    /\ request_has_quota
    /\ Len(Before(last.a)) >= 3
    /\ SliceFrom > Before(last.a)[1].start
    /\ SliceFrom < RangeEnd(Before(last.a)[1])
    /\ SliceTo <= Before(last.a)[3].start
    /\ Len(get_tainted_ranges(last.ret)) = 2

\* ---------------------------------------------------------- joining claim
Joined == last.op = "join"
JoinSep == last.a
JoinPieces == last.b

RECURSIVE SumLen(_, _)
SumLen(pieces, n) == IF n = 0 THEN 0 ELSE SumLen(pieces, n - 1) + len(pieces[n])

\* where piece k starts in the result: after k - 1 pieces and k - 1 separators
PieceOffset(k) == SumLen(JoinPieces, k - 1) + (k - 1) * len(JoinSep)

RECURSIVE SumRanges(_, _)
SumRanges(pieces, n) ==
    IF n = 0 THEN 0 ELSE SumRanges(pieces, n - 1) + Len(Before(pieces[n]))

\* C21: the ranges of sep.join(pieces) are, piece after piece, the ranges of
\* the pieces with start increased by the length of all pieces and separators
\* that stand before the piece; the separator gives no range and moves the
\* offset; a piece of length zero gives no range and leaves the offsets of the
\* later pieces as they are.
C21_JoinOffsets ==
    (Joined /\ request_has_quota /\ \E k \in 1..Len(JoinPieces) : WasTainted(JoinPieces[k])) =>
        LET got == get_tainted_ranges(last.ret)
        IN  /\ Len(got) = SumRanges(JoinPieces, Len(JoinPieces))
            /\ \A k \in 1..Len(JoinPieces) :
                  \A m \in 1..Len(Before(JoinPieces[k])) :
                     LET g == got[SumRanges(JoinPieces, k - 1) + m]
                         r == Before(JoinPieces[k])[m]
                     IN  /\ g.start = r.start + PieceOffset(k)
                         /\ g.length = r.length
                         /\ g.source = r.source
            /\ \A k \in 1..Len(JoinPieces) :
                  /\ \A q \in 0..(len(JoinPieces[k]) - 1) :
                        SourceAt(got, PieceOffset(k) + q) = SourceAt(Before(JoinPieces[k]), q)
                  /\ k < Len(JoinPieces) =>
                        \A q \in 0..(len(JoinSep) - 1) :
                           SourceAt(got, PieceOffset(k) + len(JoinPieces[k]) + q) = None
            /\ len(last.ret) = PieceOffset(Len(JoinPieces)) + len(JoinPieces[Len(JoinPieces)])

C21_Witness ==
    /\ Joined
    /\ request_has_quota
    /\ Len(JoinPieces) = 3
    /\ len(JoinSep) >= 1
    /\ WasTainted(JoinSep)
    /\ WasTainted(JoinPieces[1])
    /\ len(JoinPieces[2]) = 0
    /\ WasTainted(JoinPieces[3])
    /\ Before(JoinPieces[3])[1].start = 1
    /\ Len(get_tainted_ranges(last.ret)) = 2

\* ------------------------------------------- lengths and sources of ranges
\* C25: through taint and concatenation every registered range is at least
\* one element long and no entry is an empty sequence; a value of length zero
\* is never tainted, and as an operand it adds no range to the result.
C25_NoEmptyRange ==
    /\ \A i \in DOMAIN taint_dict :
          /\ taint_dict[i] # <<>>
          /\ \A k \in 1..Len(taint_dict[i]) : taint_dict[i][k].length >= 1
    /\ \A i \in Ids : len(i) = 0 => ~is_pyobject_tainted(taint_dict, i)
    /\ (AddReturned /\ len(last.b) = 0 /\ WasTainted(last.a)) =>
          get_tainted_ranges(last.ret) = Before(last.a)
    /\ (AddReturned /\ len(last.a) = 0 /\ WasTainted(last.b)) =>
          get_tainted_ranges(last.ret) = Before(last.b)

C25_Witness ==
    /\ AddReturned
    /\ len(last.a) = 0
    /\ objs[last.a].kind = "str"
    /\ WasTainted(last.b)
    /\ last.ret \notin {last.a, last.b}
    /\ Len(get_tainted_ranges(last.ret)) = 1

SourcesIn(ranges) == {ranges[k].source : k \in 1..Len(ranges)}
SourcesOfDict(d) == UNION {SourcesIn(d[i]) : i \in DOMAIN d}

\* C26: a call adds no source to the registry but the one a taint call was
\* given, so every source in the registry was passed to an earlier taint call
\* of the request; the result of a concatenation carries only sources of its
\* operands, and no entry that exists is replaced or changed by it.
C26_ProvenanceSound ==
    /\ SourcesOfDict(taint_dict) \subseteq
          SourcesOfDict(pre_dict) \cup (IF TaintCalled THEN {last.src} ELSE {})
    /\ None \notin SourcesOfDict(taint_dict)
    /\ SourcesOfDict(taint_dict) \subseteq Sources
    /\ AddReturned =>
          /\ SourcesIn(get_tainted_ranges(last.ret))
               = SourcesIn(Before(last.a)) \cup SourcesIn(Before(last.b))
          /\ \A i \in DOMAIN pre_dict : i \in DOMAIN taint_dict /\ taint_dict[i] = pre_dict[i]

C26_Witness ==
    /\ AddReturned
    /\ SourcesIn(Before(last.a)) = {"S2"}
    /\ SourcesIn(Before(last.b)) = {"S1"}
    /\ SourcesIn(get_tainted_ranges(last.ret)) = {"S1", "S2"}
    /\ get_tainted_ranges(last.ret)[1].source = "S2"

\* ------------------------------------------------------------ thread claims
Returned(t) == threads[t].pc = "returned"
BetweenCheckAndRegistration(t) ==
    threads[t].pc \in {"L33", "L36", "L37", "L38", "L39", "L43"}

\* C22: on a registry shared by threads, the registry operations exclude one
\* another: while a thread is between the tainted check and the registration
\* of one propagation step, no other thread writes the entries of the
\* identities the step works on, so these are as the check saw them.
C22_RegistryExclusive ==
    \A t \in Threads :
        BetweenCheckAndRegistration(t) =>
            /\ get_ranges(taint_dict, threads[t].op1) = threads[t].seen[1]
            /\ get_ranges(taint_dict, threads[t].op2) = threads[t].seen[2]

\* C23: the registration comes before the return: when a concatenation with
\* a tainted operand has returned its result, the result's ranges are in the
\* registry, and a lookup of the result before a clear finds it tainted.
C23_RegisteredBeforeReturn ==
    \A t \in Threads :
        (threads[t].pc \in {"L44", "returned"} /\ threads[t].tainted /\ ~threads[t].cleared) =>
            /\ threads[t].pyobject \in DOMAIN taint_dict
            /\ get_ranges(taint_dict, threads[t].pyobject) = threads[t].new_ranges
            /\ is_pyobject_tainted(taint_dict, threads[t].pyobject)

C23_Witness ==
    \E t, u \in Threads :
        /\ t # u
        /\ Returned(t)
        /\ threads[t].tainted
        /\ ~threads[t].cleared
        /\ Len(threads[t].new_ranges) = 2
        /\ is_pyobject_tainted(taint_dict, threads[t].pyobject)
        /\ BetweenCheckAndRegistration(u)

\* C24: a clear of another thread that falls between the tainted check of an
\* operand and the read of its ranges does not keep the concatenation from
\* completing: no missing-entry error is raised, the value returned is
\* op1 + op2, and the ranges registered are not those of a registry that was
\* cleared in part.
C24_ClearInterleaved ==
    \A t \in Threads :
        threads[t].cleared =>
            /\ threads[t].err = "none"
            /\ threads[t].pc # "raised"
            /\ Returned(t) =>
                  objs[threads[t].pyobject].val
                     = objs[threads[t].op1].val \o objs[threads[t].op2].val
            /\ (threads[t].pc \in {"L44", "returned"} /\ threads[t].tainted) =>
                  threads[t].new_ranges \in
                     {<<>>, Concatenated(threads[t].seen[1], threads[t].seen[2],
                                         len(threads[t].op1))}

\* ---------------------------------------------------------- sampling claims
\* every tag pattern of the rule matches the span's value of that tag
AllTagsMatch ==
    \A k \in 1..Len(rule.tags) :
        /\ span.tags[rule.tags[k].key] # NoText
        /\ glob_match(rule.tags[k].pattern, span.tags[rule.tags[k].key])

\* C27: a rule with tag patterns matches a span only if every tag pattern
\* matches the span's value of its tag: with a tag missing or a value failing
\* its pattern, SpanSamplingRule.match and SamplingRule.tag_match return
\* False, in whatever order the tags are examined.
C27_AllTagsMustMatch ==
    (last.op \in {"match", "tag_match"} /\ rule.tags # <<>> /\ ~AllTagsMatch) =>
        last.ret = FALSE

DecisionUpdated == last.op = "update_sampling_decision"
DecisionKept == last.b /\ last.a # MANUAL
DigitValue(c) == (CHOOSE i \in 1..10 : DigitChars[i] = c) - 1

\* the number a text of digits stands for
RECURSIVE ParseInt(_)
ParseInt(t) ==
    IF Len(t) = 1 THEN DigitValue(t[1])
    ELSE 10 * ParseInt(SubSeq(t, 1, Len(t) - 1)) + DigitValue(t[Len(t)])

\* C28: after update_sampling_decision(context, mechanism, sampled) the
\* decision tag is in context._meta iff sampled is true and the mechanism is
\* not MANUAL, with the value "-<mechanism>"; otherwise a tag that was there
\* is removed and its old value, or None, is returned; no other key of
\* context._meta changes.
C28_DecisionTag ==
    DecisionUpdated =>
        /\ SAMPLING_DECISION_TRACE_TAG_KEY \in DOMAIN _meta <=> DecisionKept
        /\ DecisionKept =>
              LET value == _meta[SAMPLING_DECISION_TRACE_TAG_KEY]
              IN  /\ Len(value) >= 2
                  /\ value[1] = "-"
                  /\ \A i \in 2..Len(value) : \E d \in 1..10 : DigitChars[d] = value[i]
                  /\ ParseInt(Tail(value)) = last.a
                  /\ (Len(value) > 2 => value[2] # "0")
                  /\ last.ret = value
        /\ ~DecisionKept =>
              last.ret = IF SAMPLING_DECISION_TRACE_TAG_KEY \in DOMAIN pre_meta
                           THEN pre_meta[SAMPLING_DECISION_TRACE_TAG_KEY]
                           ELSE NoText
        /\ DOMAIN _meta \ {SAMPLING_DECISION_TRACE_TAG_KEY}
             = DOMAIN pre_meta \ {SAMPLING_DECISION_TRACE_TAG_KEY}
        /\ \A k \in DOMAIN _meta \ {SAMPLING_DECISION_TRACE_TAG_KEY} : _meta[k] = pre_meta[k]

C28_Witness ==
    /\ DecisionUpdated
    /\ last.b
    /\ last.a = MANUAL
    /\ SAMPLING_DECISION_TRACE_TAG_KEY \in DOMAIN pre_meta
    /\ Len(pre_meta[SAMPLING_DECISION_TRACE_TAG_KEY]) = 3
    /\ last.ret = pre_meta[SAMPLING_DECISION_TRACE_TAG_KEY]
    /\ "_dd.origin" \in DOMAIN _meta

\* ----------------------------------------------------------- tornado claims
Exited == last.op = "__exit__"
ExitedBlock == last.b[2]
ExitedTop == last.b[1] = Len(blocks) + 1
Inconsistent == last.err = "StackContextInconsistentError"

\* C29 (as stated): __exit__ always restores _state.contexts to the value
\* captured by the matching __enter__, also when it raises, and raises
\* StackContextInconsistentError exactly when the contexts found at exit are
\* not the ones installed by that __enter__.
C29_ExitRestores ==
    Exited =>
        /\ _state_contexts = ExitedBlock.captured
        /\ Inconsistent <=> last.ret # ExitedBlock.installed
        /\ last.err \in {"none", "StackContextInconsistentError"}

\* C29 (amended): the same for a TracerStackContext that has one open
\* with-block at a time; old_contexts and new_contexts are fields of the
\* object, so a second __enter__ of the same object replaces what the first
\* one captured and installed, and the first __exit__ clears new_contexts for
\* the other.  A block whose inner blocks were all
\* exited in order and without error is exited without error.
C29_ExitRestoresUnlessReentered ==
    (Exited /\ ~ExitedBlock.reentered) =>
        /\ _state_contexts = ExitedBlock.captured
        /\ Inconsistent <=> last.ret # ExitedBlock.installed
        /\ last.err \in {"none", "StackContextInconsistentError"}
        /\ (ExitedTop /\ ExitedBlock.nested) => ~Inconsistent

C29_Witness ==
    /\ Exited
    /\ ~ExitedBlock.reentered
    /\ Inconsistent
    /\ ~ExitedTop
    /\ _state_contexts = ExitedBlock.captured
    /\ _state_contexts # last.ret
    /\ blocks # <<>>

\* the innermost TracerStackContext of the current stack
Innermost ==
    LET stack == contexts[_state_contexts].stack
    IN  stack[CHOOSE j \in tracers_in(stack) : \A k \in tracers_in(stack) : k <= j]

\* C30: inside an IO loop activate(ctx) changes the context of the innermost
\* enclosing TracerStackContext only, and active() then returns ctx; after a
\* nested inner block has exited, active() in the outer block returns what it
\* returned before the inner block was entered.
C30_ActivateInnermostOnly ==
    /\ (last.op = "activate" /\ io_loop /\ tracers_in(contexts[_state_contexts].stack) # {}) =>
          /\ active = last.a
          /\ \A m \in DOMAIN stack_contexts \ {Innermost} :
                stack_contexts[m]._context = last.b[m]
    /\ (/\ Exited /\ io_loop /\ ExitedTop /\ ~Inconsistent
        /\ ExitedBlock.nested /\ ~ExitedBlock.reentered
        /\ \A k \in DOMAIN blocks : ~blocks[k].reentered /\ blocks[k].m # last.a) =>
          active = ExitedBlock.outer_active
====
